---- MODULE Spec2Model ----
(***************************************************************************)
(* The editing session of the tree-based ISOCore (iso_editor_cpp/src):     *)
(* the heap of IsoNode objects, the session flags, the two source loaders, *)
(* the mutation operations, the materializer and the synthesis driver.     *)
(*                                                                         *)
(* An IsoNode* is a node id (a natural number) or NULL.  The heap maps the *)
(* ids of the live IsoNode objects to their fields; new takes the smallest *)
(* id that is not live and delete removes a node with its whole subtree.   *)
(* IsoNode::date and IsoNode::isHidden are left out: date is only ever     *)
(* written from the clock or the host file system and neither is read by   *)
(* the core.  A QString is a string, a host path is the sequence of its    *)
(* segments, and the empty QString / path is "" / << >>.                   *)
(***************************************************************************)
EXTENDS Integers, Sequences, FiniteSets, TLC

\* Bounds of the model: at most this many IsoNode objects are live at once in
\* one core, and this many threads hold a pointer to one Worker.
MaxNodes == 4
MaxThreads == 2

NULL == -1

(***************************************************************************)
(* Host environment                                                        *)
(***************************************************************************)

\* QString::compare(other, Qt::CaseInsensitive) folds both sides; the fold on
\* the names that occur in the model.
toLower(s) ==
  CASE s = "D" -> "d"
    [] s = "CUE" -> "cue"
    [] s = "FILE" -> "file"
    [] s = "TITLE" -> "title"
    [] OTHER -> s

compareCaseInsensitive(a, b) == toLower(a) = toLower(b)

\* QFileInfo::fileName(): the final segment of a path.
fileName(path) == IF path = << >> THEN "" ELSE path[Len(path)]

\* QFileInfo::dir(): the path without its final segment.
dirOf(path) == IF path = << >> THEN << >> ELSE SubSeq(path, 1, Len(path) - 1)

\* The regular files of the host that can be opened for reading, with their
\* length in bytes.
HostFiles ==
  ( <<"k", "D">>           :> 1 ) @@
  ( <<"m", "d">>           :> 2 ) @@
  ( <<"h", "D", "f">>      :> 1 ) @@
  ( <<"h", "boot.img">>    :> 2048 ) @@
  ( <<"h", "efi.img">>     :> 2048 ) @@
  ( <<"img", "a.iso">>     :> 40 * 2048 ) @@
  ( <<"img", "b.iso">>     :> 40 * 2048 ) @@
  ( <<"cd", "a.cue">>      :> 60 ) @@
  ( <<"cd", "a.bin">>      :> 3 * 2352 ) @@
  ( <<"cd", "nofile.cue">> :> 20 ) @@
  ( <<"cd", "nobin.cue">>  :> 40 ) @@
  ( <<"cd", "late.cue">>   :> 60 ) @@
  ( <<"cd", "back.cue">>   :> 60 )

\* The directories of the host, each with its entries in QDir::entryInfoList order.
HostDirs ==
  ( <<"h", "D">>      :> <<"f", "s">> ) @@
  ( <<"h", "D", "s">> :> << >> )

\* A QByteArray read from the host is the extent of the file it was read from:
\* len bytes of file `from` starting at byte `at`.  Every empty array is the same.
EmptyBytes == [ from |-> << >>, at |-> 0, len |-> 0 ]

Bytes(from, at, len) ==
  IF len <= 0 THEN EmptyBytes ELSE [ from |-> from, at |-> at, len |-> len ]

\* QFile::readAll() on a readable file.
readAll(path) == Bytes(path, 0, HostFiles[path])

\* QFile::seek(at) followed by QFile::read(maxSize): what the file holds there.
seekRead(path, at, maxSize) ==
  LET have == IF at >= HostFiles[path] THEN 0 ELSE HostFiles[path] - at
  IN  Bytes(path, at, IF maxSize < have THEN maxSize ELSE have)

\* QFileInfo::suffix(): what follows the last dot of the file name.
suffix(path) ==
  LET n == fileName(path)
  IN  CASE n \in {"a.iso", "b.iso", "bad.iso", "new.iso"} -> "iso"
        [] n \in {"a.cue", "nofile.cue", "nobin.cue", "late.cue", "back.cue"} -> "cue"
        [] n = "GONE.CUE" -> "CUE"
        [] n \in {"boot.img", "efi.img"} -> "img"
        [] n = "a.bin" -> "bin"
        [] OTHER -> ""

\* QString::trimmed() on the padded identifiers of the images.
trimmed(s) ==
  CASE s = "VOL_A   " -> "VOL_A"
    [] s = "VOL_B   " -> "VOL_B"
    [] s = "LINUX   " -> "LINUX"
    [] OTHER -> s

\* QString("Track %1.wav").arg(n, 2, 10, QChar('0')).
trackName(n) ==
  CASE n = 1 -> "Track 01.wav"
    [] n = 2 -> "Track 02.wav"
    [] n = 3 -> "Track 03.wav"
    [] OTHER -> "Track ??.wav"

\* One entry of a directory listing of the reading library (iso9660_stat_t).
Stat(filename, type, lsn, size) ==
  [ filename |-> filename, type |-> type, lsn |-> lsn, size |-> size ]

\* The ISO 9660 images of the host that the reading library can open: the
\* identifiers as stored (padded) and the listing of each directory.
IsoImages ==
  ( <<"img", "a.iso">> :>
      [ volumeId |-> "VOL_A   ", systemId |-> "LINUX   ",
        dirs |-> ( << >> :> << Stat(".", "dir", 18, 2048), Stat("..", "dir", 18, 2048),
                               Stat("d", "dir", 20, 2048) >> ) @@
                 ( <<"d">> :> << Stat(".", "dir", 20, 2048), Stat("..", "dir", 18, 2048),
                                 Stat("g", "file", 30, 3000) >> ) ] ) @@
  ( <<"img", "b.iso">> :>
      [ volumeId |-> "VOL_B   ", systemId |-> "LINUX   ",
        dirs |-> ( << >> :> << Stat(".", "dir", 18, 2048), Stat("..", "dir", 18, 2048),
                               Stat("r", "file", 25, 4096) >> ) ] )

\* The text of a CUE sheet line: its leading keyword as written and its quoted
\* argument.
Line(kw, arg) == [ kw |-> kw, arg |-> arg ]

\* One track as CUEParser::next_track reports it.
Track(track_number, data_start) ==
  [ track_number |-> track_number, data_start |-> data_start ]

\* The CUE sheets of the host: their lines and the tracks CUEParser finds.
CueSheets ==
  ( <<"cd", "a.cue">> :>
      [ lines |-> << Line("TITLE", "Album"), Line("file", "a.bin"),
                     Line("TRACK", "01"), Line("TRACK", "02") >>,
        tracks |-> << Track(1, 0), Track(2, 2) >> ] ) @@
  ( <<"cd", "nofile.cue">> :>
      [ lines |-> << Line("TITLE", "Broken"), Line("TRACK", "01") >>,
        tracks |-> << Track(1, 0) >> ] ) @@
  ( <<"cd", "nobin.cue">> :>
      [ lines |-> << Line("FILE", "lost.bin"), Line("TRACK", "01") >>,
        tracks |-> << Track(1, 0) >> ] ) @@
  ( <<"cd", "late.cue">> :>
      [ lines |-> << Line("FILE", "a.bin"), Line("TRACK", "01"), Line("TRACK", "02") >>,
        tracks |-> << Track(1, 0), Track(2, 4) >> ] ) @@
  ( <<"cd", "back.cue">> :>
      [ lines |-> << Line("FILE", "a.bin"), Line("TRACK", "01"), Line("TRACK", "02") >>,
        tracks |-> << Track(1, 2), Track(2, 0) >> ] )

isFile(path) == path \in DOMAIN HostFiles
isDir(path) == path \in DOMAIN HostDirs

(***************************************************************************)
(* IsoNode and the heap                                                    *)
(***************************************************************************)

\* A default-constructed IsoNode.
IsoNode ==
  [ name |-> "", isDirectory |-> FALSE, size |-> 0,
    fileData |-> EmptyBytes, isNew |-> FALSE,
    lsn |-> 0,
    isCueTrack |-> FALSE, cueBinFile |-> << >>, cueOffset |-> 0,
    children |-> << >>, parent |-> NULL ]

\* A default-constructed VolumeDescriptor.
VolumeDescriptor == [ systemId |-> "", volumeId |-> "" ]

\* operator new: the smallest id that is not live.
Alloc(heap) ==
  CHOOSE i \in 0..Cardinality(DOMAIN heap) :
    /\ i \notin DOMAIN heap
    /\ \A j \in 0..(i - 1) : j \in DOMAIN heap

\* The nodes a delete of n frees: n and, through ~IsoNode's qDeleteAll(children),
\* every node below it.
RECURSIVE Subtree(_, _)
Subtree(heap, n) ==
  {n} \cup UNION { Subtree(heap, heap[n].children[i]) :
                     i \in 1..Len(heap[n].children) }

\* delete n (delete nullptr does nothing).
deleteNode(heap, n) ==
  IF n = NULL THEN heap
  ELSE LET gone == Subtree(heap, n)
       IN  [ i \in (DOMAIN heap) \ gone |-> heap[i] ]

\* QList::removeAt / takeAt(i) with i counted from 1.
RemoveAt(s, i) == SubSeq(s, 1, i - 1) \o SubSeq(s, i + 1, Len(s))

\* The position of the first TRUE in hits (one test result per element of a
\* list), 0 if none.
FirstIndex(hits) ==
  IF \E i \in 1..Len(hits) : hits[i]
  THEN CHOOSE i \in 1..Len(hits) : hits[i] /\ \A j \in 1..(i - 1) : ~hits[j]
  ELSE 0

(***************************************************************************)
(* ISOCore: construction and the mutation operations.  Each operation maps *)
(* the fields of the core (a record c) to the fields after the call.       *)
(***************************************************************************)

\* clear that leaves the boot image paths as they are.
clear_KeepBootPaths(c) ==
  [ c EXCEPT !.heap = deleteNode(c.heap, c.rootNode),
             !.rootNode = NULL,
             !.modified = FALSE,
             !.currentIsoPath = << >>,
             !.volumeDescriptor = VolumeDescriptor ]

clear(c) ==
  [ c EXCEPT !.heap = deleteNode(c.heap, c.rootNode),
             !.rootNode = NULL,
             !.modified = FALSE,
             !.currentIsoPath = << >>,
             !.bootImagePath = << >>,
             !.efiBootImagePath = << >>,
             !.volumeDescriptor = VolumeDescriptor ]

\* initNewIso without the clear() it starts with: only the members it assigns
\* itself are reset.
initNewIso_NoClear(c) ==
  LET root == Alloc(c.heap)
  IN  [ c EXCEPT
          !.heap = c.heap @@ (root :> [ IsoNode EXCEPT !.name = "/", !.isDirectory = TRUE,
                                                      !.parent = root, !.isNew = TRUE ]),
          !.rootNode = root,
          !.volumeDescriptor = [ systemId |-> "ISO_EDITOR", volumeId |-> "NEW_ISO" ],
          !.modified = FALSE ]

initNewIso(c) ==
  LET c1 == clear(c)
      root == Alloc(c1.heap)
  IN  [ c1 EXCEPT
          !.heap = c1.heap @@
                   (root :> [ IsoNode EXCEPT !.name = "/", !.isDirectory = TRUE,
                                             !.parent = root, !.isNew = TRUE ]),
          !.rootNode = root,
          !.volumeDescriptor = [ systemId |-> "ISO_EDITOR", volumeId |-> "NEW_ISO" ],
          !.modified = FALSE ]

\* ISOCore::ISOCore(): rootNode = nullptr; modified = false; initNewIso().
ISOCoreNew ==
  initNewIso([ heap |-> << >>, rootNode |-> NULL, modified |-> FALSE,
               currentIsoPath |-> << >>, bootImagePath |-> << >>,
               efiBootImagePath |-> << >>, volumeDescriptor |-> VolumeDescriptor ])

\* addFolderToDirectory that gives the new directory node the size of a
\* directory entry, one block.
addFolderToDirectory_BlockSize(c, folderName, targetNode) ==
  IF targetNode = NULL \/ ~c.heap[targetNode].isDirectory THEN c
  ELSE IF \E i \in 1..Len(c.heap[targetNode].children) :
            LET child == c.heap[c.heap[targetNode].children[i]]
            IN  child.isDirectory /\ compareCaseInsensitive(child.name, folderName)
  THEN c
  ELSE LET newNode == Alloc(c.heap)
       IN  [ c EXCEPT
               !.heap = [ c.heap EXCEPT ![targetNode].children = Append(@, newNode) ] @@
                        (newNode :> [ IsoNode EXCEPT !.name = folderName,
                                                     !.isDirectory = TRUE,
                                                     !.size = 2048,
                                                     !.parent = targetNode,
                                                     !.isNew = TRUE ]),
               !.modified = TRUE ]

\* addFolderToDirectory that appends the new node without setting its parent:
\* the field keeps its default, nullptr.
addFolderToDirectory_NoParent(c, folderName, targetNode) ==
  IF targetNode = NULL \/ ~c.heap[targetNode].isDirectory THEN c
  ELSE IF \E i \in 1..Len(c.heap[targetNode].children) :
            LET child == c.heap[c.heap[targetNode].children[i]]
            IN  child.isDirectory /\ compareCaseInsensitive(child.name, folderName)
  THEN c
  ELSE LET newNode == Alloc(c.heap)
       IN  [ c EXCEPT
               !.heap = [ c.heap EXCEPT ![targetNode].children = Append(@, newNode) ] @@
                        (newNode :> [ IsoNode EXCEPT !.name = folderName,
                                                     !.isDirectory = TRUE,
                                                     !.isNew = TRUE ]),
               !.modified = TRUE ]

addFolderToDirectory(c, folderName, targetNode) ==
  IF targetNode = NULL \/ ~c.heap[targetNode].isDirectory THEN c
  ELSE IF \E i \in 1..Len(c.heap[targetNode].children) :
            LET child == c.heap[c.heap[targetNode].children[i]]
            IN  child.isDirectory /\ compareCaseInsensitive(child.name, folderName)
  THEN c
  ELSE LET newNode == Alloc(c.heap)
       IN  [ c EXCEPT
               !.heap = [ c.heap EXCEPT ![targetNode].children = Append(@, newNode) ] @@
                        (newNode :> [ IsoNode EXCEPT !.name = folderName,
                                                     !.isDirectory = TRUE,
                                                     !.parent = targetNode,
                                                     !.isNew = TRUE ]),
               !.modified = TRUE ]

\* addFileToDirectory that overwrites in place: the sibling of that name is
\* kept and given the name, size and content of the new file.
addFileToDirectory_InPlace(c, filePath, targetNode) ==
  IF targetNode = NULL \/ ~c.heap[targetNode].isDirectory THEN c
  ELSE IF ~isFile(filePath) THEN c
  ELSE LET fileData == readAll(filePath)
           filename == fileName(filePath)
           kids == c.heap[targetNode].children
           i == FirstIndex([ k \in 1..Len(kids) |->
                               /\ ~c.heap[kids[k]].isDirectory
                               /\ compareCaseInsensitive(c.heap[kids[k]].name, filename) ])
           newNode == Alloc(c.heap)
       IN  IF i # 0
           THEN [ c EXCEPT !.heap[kids[i]].name = filename,
                           !.heap[kids[i]].size = fileData.len,
                           !.heap[kids[i]].isNew = TRUE,
                           !.heap[kids[i]].fileData = fileData,
                           !.modified = TRUE ]
           ELSE [ c EXCEPT
                    !.heap = [ c.heap EXCEPT ![targetNode].children = Append(@, newNode) ] @@
                             (newNode :> [ IsoNode EXCEPT !.name = filename,
                                                          !.parent = targetNode,
                                                          !.size = fileData.len,
                                                          !.isNew = TRUE,
                                                          !.fileData = fileData ]),
                    !.modified = TRUE ]

\* addFileToDirectory that overwrites the first sibling of that name whatever
\* its kind: a directory of the name is deleted with its subtree.
addFileToDirectory_AnyKind(c, filePath, targetNode) ==
  IF targetNode = NULL \/ ~c.heap[targetNode].isDirectory THEN c
  ELSE IF ~isFile(filePath) THEN c
  ELSE LET fileData == readAll(filePath)
           filename == fileName(filePath)
           kids == c.heap[targetNode].children
           i == FirstIndex([ k \in 1..Len(kids) |->
                               compareCaseInsensitive(c.heap[kids[k]].name, filename) ])
           heap1 == IF i = 0 THEN c.heap
                    ELSE deleteNode([ c.heap EXCEPT ![targetNode].children = RemoveAt(@, i) ],
                                    kids[i])
           newNode == Alloc(heap1)
       IN  [ c EXCEPT
               !.heap = [ heap1 EXCEPT ![targetNode].children = Append(@, newNode) ] @@
                        (newNode :> [ IsoNode EXCEPT !.name = filename,
                                                     !.parent = targetNode,
                                                     !.size = fileData.len,
                                                     !.isNew = TRUE,
                                                     !.fileData = fileData ]),
               !.modified = TRUE ]

\* addFileToDirectory that goes on when the host file cannot be opened: it
\* adds a node with the empty content read from the closed file.
addFileToDirectory_NoOpenCheck(c, filePath, targetNode) ==
  IF targetNode = NULL \/ ~c.heap[targetNode].isDirectory THEN c
  ELSE LET fileData == IF isFile(filePath) THEN readAll(filePath) ELSE EmptyBytes
           filename == fileName(filePath)
           kids == c.heap[targetNode].children
           i == FirstIndex([ k \in 1..Len(kids) |->
                               /\ ~c.heap[kids[k]].isDirectory
                               /\ compareCaseInsensitive(c.heap[kids[k]].name, filename) ])
           heap1 == IF i = 0 THEN c.heap
                    ELSE deleteNode([ c.heap EXCEPT ![targetNode].children = RemoveAt(@, i) ],
                                    kids[i])
           newNode == Alloc(heap1)
       IN  [ c EXCEPT
               !.heap = [ heap1 EXCEPT ![targetNode].children = Append(@, newNode) ] @@
                        (newNode :> [ IsoNode EXCEPT !.name = filename,
                                                     !.parent = targetNode,
                                                     !.size = fileData.len,
                                                     !.isNew = TRUE,
                                                     !.fileData = fileData ]),
               !.modified = TRUE ]

addFileToDirectory(c, filePath, targetNode) ==
  IF targetNode = NULL \/ ~c.heap[targetNode].isDirectory THEN c
  ELSE IF ~isFile(filePath) THEN c
  ELSE LET fileData == readAll(filePath)
           filename == fileName(filePath)
           kids == c.heap[targetNode].children
           Hit(k) == /\ ~c.heap[k].isDirectory
                     /\ compareCaseInsensitive(c.heap[k].name, filename)
           i == FirstIndex([ k \in 1..Len(kids) |-> Hit(kids[k]) ])
           heap1 == IF i = 0 THEN c.heap
                    ELSE deleteNode([ c.heap EXCEPT ![targetNode].children = RemoveAt(@, i) ],
                                    kids[i])
           newNode == Alloc(heap1)
       IN  [ c EXCEPT
               !.heap = [ heap1 EXCEPT ![targetNode].children = Append(@, newNode) ] @@
                        (newNode :> [ IsoNode EXCEPT !.name = filename,
                                                     !.parent = targetNode,
                                                     !.size = fileData.len,
                                                     !.isNew = TRUE,
                                                     !.fileData = fileData ]),
               !.modified = TRUE ]

\* removeNode that frees the node alone: its children are not deleted with it.
removeNode_Shallow(c, node) ==
  IF node = NULL \/ c.heap[node].parent = NULL \/ node = c.rootNode THEN c
  ELSE LET parent == c.heap[node].parent
           kids == c.heap[parent].children
           i == FirstIndex([ k \in 1..Len(kids) |-> kids[k] = node ])
       IN  IF i = 0 THEN c
           ELSE [ c EXCEPT
                    !.heap = [ m \in (DOMAIN c.heap) \ { node } |->
                                 IF m = parent
                                 THEN [ c.heap[m] EXCEPT !.children = RemoveAt(@, i) ]
                                 ELSE c.heap[m] ],
                    !.modified = TRUE ]

removeNode(c, node) ==
  IF node = NULL \/ c.heap[node].parent = NULL \/ node = c.rootNode THEN c
  ELSE LET parent == c.heap[node].parent
           kids == c.heap[parent].children
           Is(k) == k = node
           i == FirstIndex([ k \in 1..Len(kids) |-> Is(kids[k]) ])
       IN  IF i = 0 THEN c
           ELSE [ c EXCEPT
                    !.heap = deleteNode([ c.heap EXCEPT ![parent].children = RemoveAt(@, i) ],
                                        node),
                    !.modified = TRUE ]

RECURSIVE importDirectoryRecursive(_, _, _)
RECURSIVE importEntries(_, _, _, _)

\* The loop of importDirectoryRecursive without its isDir branch: the
\* subdirectories of the host directory are skipped.
importEntries_FilesOnly(c, sourcePath, entries, newDirNode) ==
  IF entries = << >> THEN c
  ELSE LET entryPath == Append(sourcePath, Head(entries))
           c1 == IF isFile(entryPath) THEN addFileToDirectory(c, entryPath, newDirNode)
                 ELSE c
       IN  importEntries(c1, sourcePath, Tail(entries), newDirNode)

\* The loop over sourceDir.entryInfoList(...) of importDirectoryRecursive.
importEntries(c, sourcePath, entries, newDirNode) ==
  IF entries = << >> THEN c
  ELSE LET entryPath == Append(sourcePath, Head(entries))
           c1 == IF isDir(entryPath) THEN importDirectoryRecursive(c, entryPath, newDirNode)
                 ELSE IF isFile(entryPath) THEN addFileToDirectory(c, entryPath, newDirNode)
                 ELSE c
       IN  importEntries(c1, sourcePath, Tail(entries), newDirNode)

importDirectoryRecursive(c, sourcePath, targetParentNode) ==
  LET c1 == addFolderToDirectory(c, fileName(sourcePath), targetParentNode)
      kids == c1.heap[targetParentNode].children
      Hit(k) == c1.heap[k].isDirectory /\ c1.heap[k].name = fileName(sourcePath)
      i == FirstIndex([ k \in 1..Len(kids) |-> Hit(kids[k]) ])
  IN  IF i = 0 THEN c1
      ELSE importEntries(c1, sourcePath, HostDirs[sourcePath], kids[i])

importDirectory(c, dirPath, targetNode) ==
  IF targetNode = NULL \/ ~c.heap[targetNode].isDirectory THEN c
  ELSE IF ~isDir(dirPath) THEN c
  ELSE [ importDirectoryRecursive(c, dirPath, targetNode) EXCEPT !.modified = TRUE ]

setVolumeDescriptor(c, vd) ==
  IF c.volumeDescriptor.volumeId # vd.volumeId \/ c.volumeDescriptor.systemId # vd.systemId
  THEN [ c EXCEPT !.volumeDescriptor = vd, !.modified = TRUE ]
  ELSE c

setBootImagePath(c, path) ==
  IF c.bootImagePath # path THEN [ c EXCEPT !.bootImagePath = path, !.modified = TRUE ]
  ELSE c

setEfiBootImagePath(c, path) ==
  IF c.efiBootImagePath # path THEN [ c EXCEPT !.efiBootImagePath = path, !.modified = TRUE ]
  ELSE c

(***************************************************************************)
(* Source loaders                                                          *)
(***************************************************************************)

\* quint64 arithmetic wraps; the checker's integers are 32 bits wide, so the
\* 64-bit words are narrowed to 30 bits with the same wrap-around behaviour.
U64(x) == x % (2 ^ 30)

\* line.startsWith(keyword, Qt::CaseInsensitive)
startsWith(line, keyword) == compareCaseInsensitive(line.kw, keyword)

\* The value the scanning loop of loadCueSheet leaves in cueTitle / binFile:
\* the argument of the last line that starts with the keyword, "" if none.
RECURSIVE lastArg(_, _, _)
lastArg(lines, keyword, sofar) ==
  IF lines = << >> THEN sofar
  ELSE lastArg(Tail(lines), keyword,
               IF startsWith(Head(lines), keyword) THEN Head(lines).arg ELSE sofar)

\* The lines QTextStream reads from a host file: those of a CUE sheet, none
\* of them with a keyword from any other file.
textLines(filePath) ==
  IF filePath \notin DOMAIN CueSheets THEN << >> ELSE CueSheets[filePath].lines

\* The tracks CUEParser finds in the text of a host file.
cueTracks(filePath) ==
  IF filePath \notin DOMAIN CueSheets THEN << >> ELSE CueSheets[filePath].tracks

\* The loop "while ((track = parser.next_track()) != nullptr)" of loadCueSheet.
RECURSIVE appendTracks(_, _, _)
appendTracks(c, tracks, binPath) ==
  IF tracks = << >> THEN c
  ELSE LET track == Head(tracks)
           newNode == Alloc(c.heap)
           c1 == [ c EXCEPT
                     !.heap = [ c.heap EXCEPT ![c.rootNode].children = Append(@, newNode) ] @@
                              (newNode :> [ IsoNode EXCEPT
                                              !.name = trackName(track.track_number),
                                              !.parent = c.rootNode,
                                              !.isNew = FALSE,
                                              !.isDirectory = FALSE,
                                              !.isCueTrack = TRUE,
                                              !.cueBinFile = binPath,
                                              !.cueOffset = U64(track.data_start * 2352) ]) ]
       IN  appendTracks(c1, Tail(tracks), binPath)

\* The size back-fill loop of loadCueSheet, from child i on.
RECURSIVE fillTrackSizes(_, _, _)
fillTrackSizes(heap, root, i) ==
  LET kids == heap[root].children
  IN  IF i > Len(kids) THEN heap
      ELSE LET currentTrack == kids[i]
               binPath == heap[currentTrack].cueBinFile
               heap1 ==
                 IF i + 1 <= Len(kids)
                 THEN [ heap EXCEPT ![currentTrack].size =
                          U64(heap[kids[i + 1]].cueOffset - heap[currentTrack].cueOffset) ]
                 ELSE IF isFile(binPath)
                 THEN [ heap EXCEPT ![currentTrack].size =
                          U64(HostFiles[binPath] - heap[currentTrack].cueOffset) ]
                 ELSE heap
           IN  fillTrackSizes(heap1, root, i + 1)

\* The result of a bool method: the value returned and the fields afterwards.
Ret(ok, c) == [ ok |-> ok, c |-> c ]

loadCueSheet(c, filePath) ==
  IF ~isFile(filePath) THEN Ret(FALSE, c)
  ELSE LET lines == textLines(filePath)
           cueTitle == lastArg(lines, "TITLE", "")
           binFile == lastArg(lines, "FILE", "")
       IN  IF binFile = "" THEN Ret(FALSE, c)
           ELSE LET c1 == initNewIso(c)
                    c2 == [ c1 EXCEPT !.volumeDescriptor.volumeId = cueTitle ]
                    binPath == Append(dirOf(filePath), binFile)
                    c3 == appendTracks(c2, cueTracks(filePath), binPath)
                    c4 == [ c3 EXCEPT !.heap = fillTrackSizes(c3.heap, c3.rootNode, 1) ]
                IN  Ret(TRUE, [ c4 EXCEPT !.currentIsoPath = filePath,
                                          !.modified = FALSE ])

RECURSIVE buildNodeTree(_, _, _, _)
RECURSIVE buildEntries(_, _, _, _, _)

\* The first loop of buildNodeTree over the stat vector of one directory.
buildEntries(heap, fs, path, stats, parent_node) ==
  IF stats = << >> THEN heap
  ELSE LET stat == Head(stats)
       IN  IF stat.filename = "." \/ stat.filename = ".."
           THEN buildEntries(heap, fs, path, Tail(stats), parent_node)
           ELSE LET new_node == Alloc(heap)
                    made == [ IsoNode EXCEPT !.name = stat.filename,
                                             !.parent = parent_node,
                                             !.isNew = FALSE,
                                             !.lsn = stat.lsn ]
                    heap1 ==
                      IF stat.type = "dir"
                      THEN buildNodeTree(heap @@ (new_node :> [ made EXCEPT !.isDirectory = TRUE ]),
                                         fs, Append(path, stat.filename), new_node)
                      ELSE heap @@ (new_node :> [ made EXCEPT !.size = stat.size ])
                    heap2 == [ heap1 EXCEPT ![parent_node].children = Append(@, new_node) ]
                IN  buildEntries(heap2, fs, path, Tail(stats), parent_node)

buildNodeTree(heap, fs, path, parent_node) ==
  IF path \notin DOMAIN fs.dirs THEN heap
  ELSE buildEntries(heap, fs, path, fs.dirs[path], parent_node)

\* loadIso that returns on an open failure the way loadCueSheet does, before
\* anything is reset.
loadIso_NoReset(c, filePath) ==
  IF compareCaseInsensitive(suffix(filePath), "cue") THEN loadCueSheet(c, filePath)
  ELSE IF filePath \notin DOMAIN IsoImages THEN Ret(FALSE, c)
  ELSE LET c1 == initNewIso(c)
           fs == IsoImages[filePath]
           c2 == [ c1 EXCEPT !.volumeDescriptor =
                               [ volumeId |-> trimmed(fs.volumeId),
                                 systemId |-> trimmed(fs.systemId) ] ]
           heap1 == buildNodeTree(c2.heap, fs, << >>, c2.rootNode)
       IN  Ret(TRUE, [ c2 EXCEPT
                         !.heap = [ heap1 EXCEPT ![c2.rootNode].isNew = FALSE ],
                         !.currentIsoPath = filePath,
                         !.modified = FALSE ])

loadIso(c, filePath) ==
  IF compareCaseInsensitive(suffix(filePath), "cue") THEN loadCueSheet(c, filePath)
  ELSE LET c1 == initNewIso(c)
       IN  IF filePath \notin DOMAIN IsoImages THEN Ret(FALSE, initNewIso(c1))
           ELSE LET fs == IsoImages[filePath]
                    c2 == [ c1 EXCEPT !.volumeDescriptor =
                                        [ volumeId |-> trimmed(fs.volumeId),
                                          systemId |-> trimmed(fs.systemId) ] ]
                    heap1 == buildNodeTree(c2.heap, fs, << >>, c2.rootNode)
                IN  Ret(TRUE, [ c2 EXCEPT
                                  !.heap = [ heap1 EXCEPT ![c2.rootNode].isNew = FALSE ],
                                  !.currentIsoPath = filePath,
                                  !.modified = FALSE ])

(***************************************************************************)
(* Byte resolution, the materializer and the synthesis driver              *)
(***************************************************************************)

\* The output path chosen in the Save As dialog; no file of the host.
SaveAsPath == <<"out", "new.iso">>

\* The host file getFileData opens to resolve a node that is neither Pending
\* nor Track-resident.
imagePathRead(c) == c.currentIsoPath

\* iso9660_open succeeds on the images of the host and on the image the
\* mastering tool has written (the core holds that path only after it did).
isoOpens(path) == path \in DOMAIN IsoImages \/ path = SaveAsPath

ISO_BLOCKSIZE == 2048

\* long int blocks = node->size / ISO_BLOCKSIZE + (node->size % ISO_BLOCKSIZE > 0);
blocks(size) == (size \div ISO_BLOCKSIZE) + (IF size % ISO_BLOCKSIZE > 0 THEN 1 ELSE 0)

\* getFileData(node) gets as far as the block read of lines 160-163.
readsBlocks(c, node) ==
  /\ node # NULL
  /\ ~c.heap[node].isDirectory
  /\ ~c.heap[node].isNew
  /\ ~c.heap[node].isCueTrack
  /\ c.currentIsoPath # << >>
  /\ isoOpens(imagePathRead(c))

\* iso9660_iso_seek_read stores blocks * ISO_BLOCKSIZE bytes at buffer.data(),
\* where buffer.resize(node->size) has made room for size bytes: the read
\* writes past the end of the buffer when it delivers more.
overruns(c, node) ==
  readsBlocks(c, node) /\ blocks(c.heap[node].size) * ISO_BLOCKSIZE > c.heap[node].size

getFileData(c, node) ==
  IF node = NULL \/ c.heap[node].isDirectory THEN EmptyBytes
  ELSE IF c.heap[node].isNew THEN c.heap[node].fileData
  ELSE IF c.heap[node].isCueTrack
  THEN IF ~isFile(c.heap[node].cueBinFile) THEN EmptyBytes
       ELSE seekRead(c.heap[node].cueBinFile, c.heap[node].cueOffset, c.heap[node].size)
  ELSE IF c.currentIsoPath = << >> THEN EmptyBytes
  ELSE IF ~isoOpens(imagePathRead(c)) THEN EmptyBytes
  ELSE Bytes(imagePathRead(c), c.heap[node].lsn * 2048, c.heap[node].size)

\* The staging directory while it is being filled: what exists below it
\* (disk: path -> entry), the number of host operations made so far (n), the
\* operation the host fails (faultAt, 0: none), whether all succeeded, and
\* whether a getFileData call has written past its buffer (overrun).
DirEntry == [ isDir |-> TRUE, data |-> EmptyBytes ]
FileEntry(data) == [ isDir |-> FALSE, data |-> data ]

Staging(faultAt) ==
  [ ok |-> TRUE, disk |-> << >>, n |-> 0, faultAt |-> faultAt, overrun |-> FALSE ]

\* QDir(currentPath).mkdir(name): fails if the entry exists already.
mkdir(st, path) ==
  IF st.n + 1 = st.faultAt \/ path \in DOMAIN st.disk
  THEN [ st EXCEPT !.ok = FALSE, !.n = @ + 1 ]
  ELSE [ st EXCEPT !.n = @ + 1, !.disk = @ @@ (path :> DirEntry) ]

\* QFile::open(QIODevice::WriteOnly): creates or truncates; fails on a directory.
openWriteOnly(st, path) ==
  IF st.n + 1 = st.faultAt \/ (path \in DOMAIN st.disk /\ st.disk[path].isDir)
  THEN [ st EXCEPT !.ok = FALSE, !.n = @ + 1 ]
  ELSE [ st EXCEPT !.n = @ + 1,
                   !.disk = (path :> FileEntry(EmptyBytes)) @@ @ ]

\* file.write(data) != data.size(): a failing host writes fewer bytes than
\* asked; writing no bytes cannot fall short.
writeData(st, path, data) ==
  IF st.n + 1 = st.faultAt /\ data.len > 0
  THEN [ st EXCEPT !.ok = FALSE, !.n = @ + 1 ]
  ELSE [ st EXCEPT !.n = @ + 1, !.disk = (path :> FileEntry(data)) @@ @ ]

RECURSIVE writeTreeToDisk(_, _, _, _)
RECURSIVE writeChildren(_, _, _, _)

\* The loop of writeTreeToDisk over node->children.
writeChildren(c, kids, currentPath, st) ==
  IF kids = << >> THEN st
  ELSE LET child == Head(kids)
           childPath == Append(currentPath, c.heap[child].name)
           st1 == IF c.heap[child].isDirectory
                  THEN LET made == mkdir(st, childPath)
                       IN  IF ~made.ok THEN made
                           ELSE writeTreeToDisk(c, child, childPath, made)
                  ELSE LET opened == openWriteOnly(st, childPath)
                       IN  IF ~opened.ok THEN opened
                           ELSE writeData([ opened EXCEPT !.overrun = @ \/ overruns(c, child) ],
                                          childPath, getFileData(c, child))
       IN  IF ~st1.ok THEN st1
           ELSE writeChildren(c, Tail(kids), currentPath, st1)

writeTreeToDisk(c, node, currentPath, st) ==
  IF node = NULL THEN [ st EXCEPT !.ok = FALSE ]
  ELSE writeChildren(c, c.heap[node].children, currentPath, st)

\* QFile::copy(source, target): never overwrites; hostOk is false when the
\* host cannot read the source or write the target.
copyFile(disk, source, target, hostOk) ==
  IF ~hostOk \/ ~isFile(source) \/ target \in DOMAIN disk
  THEN [ ok |-> FALSE, disk |-> disk ]
  ELSE [ ok |-> TRUE, disk |-> disk @@ (target :> FileEntry(readAll(source))) ]

\* One element of a QStringList of arguments.
Arg(s) == << s >>

\* QTemporaryDir::path()
TempDirPath == << "tmp" >>

\* What the host decides during one saveIso call.
SaveEnv(tempDirValid, faultAt, bootCopyOk, efiCopyOk, started) ==
  [ tempDirValid |-> tempDirValid, faultAt |-> faultAt, bootCopyOk |-> bootCopyOk,
    efiCopyOk |-> efiCopyOk, started |-> started ]

\* The arguments for the boot images: lines 183-197 of saveIso.
bootArgs(c, disk, makeHybrid, env) ==
  LET boot == IF c.bootImagePath = << >> THEN [ ok |-> FALSE, disk |-> disk ]
              ELSE copyFile(disk, c.bootImagePath,
                            Append(TempDirPath, fileName(c.bootImagePath)), env.bootCopyOk)
      efi == IF c.efiBootImagePath = << >> THEN [ ok |-> FALSE, disk |-> boot.disk ]
             ELSE copyFile(boot.disk, c.efiBootImagePath,
                           Append(TempDirPath, fileName(c.efiBootImagePath)), env.efiCopyOk)
  IN  [ disk |-> efi.disk,
        args |->
          (IF boot.ok
           THEN << Arg("-b"), Arg(fileName(c.bootImagePath)), Arg("-no-emul-boot") >>
           ELSE << >>) \o
          (IF c.efiBootImagePath # << >>
           THEN IF efi.ok
                THEN << Arg("-eltorito-boot"), Arg(fileName(c.efiBootImagePath)),
                        Arg("-no-emul-boot") >> \o
                     (IF makeHybrid THEN << Arg("-isohybrid-gpt-basdat") >> ELSE << >>)
                ELSE << >>
           ELSE IF makeHybrid THEN << Arg("-isohybrid-mbr") >> ELSE << >>) ]

\* saveIsoStart that does not look at the result of writeTreeToDisk: the tool
\* is started on whatever was staged.
saveIsoStart_IgnoreWriteResult(c, filePath, useUdf, makeHybrid, env) ==
  LET st == writeTreeToDisk(c, c.rootNode, TempDirPath, Staging(env.faultAt))
      failed == [ returned |-> TRUE, args |-> << >>, disk |-> << >>,
                  overrun |-> env.tempDirValid /\ st.overrun ]
      boot == bootArgs(c, st.disk, makeHybrid, env)
      args == << Arg("-o"), filePath, Arg("-R"), Arg("-J"),
                 Arg("-V"), Arg(c.volumeDescriptor.volumeId),
                 Arg("-sysid"), Arg(c.volumeDescriptor.systemId) >> \o
              (IF useUdf THEN << Arg("-udf") >> ELSE << >>) \o
              boot.args \o << TempDirPath >>
  IN  IF ~env.tempDirValid THEN failed
      ELSE [ returned |-> ~env.started, args |-> args, disk |-> boot.disk,
             overrun |-> st.overrun ]

\* saveIso up to genisoimage.start: `returned` tells whether the call has
\* returned (false) already, else the tool runs with args on the staged disk;
\* `overrun` whether a block read has written past its buffer on the way.
saveIsoStart(c, filePath, useUdf, makeHybrid, env) ==
  LET st == writeTreeToDisk(c, c.rootNode, TempDirPath, Staging(env.faultAt))
      failed == [ returned |-> TRUE, args |-> << >>, disk |-> << >>,
                  overrun |-> env.tempDirValid /\ st.overrun ]
      boot == bootArgs(c, st.disk, makeHybrid, env)
      args == << Arg("-o"), filePath, Arg("-R"), Arg("-J"),
                 Arg("-V"), Arg(c.volumeDescriptor.volumeId),
                 Arg("-sysid"), Arg(c.volumeDescriptor.systemId) >> \o
              (IF useUdf THEN << Arg("-udf") >> ELSE << >>) \o
              boot.args \o << TempDirPath >>
  IN  IF ~env.tempDirValid THEN failed
      ELSE IF ~st.ok THEN failed
      ELSE [ returned |-> ~env.started, args |-> args, disk |-> boot.disk,
             overrun |-> st.overrun ]

\* saveIsoFinish with the session updated before the tool's result is looked at.
saveIsoFinish_UpdateFirst(c, filePath, finished, exitCode) ==
  Ret(finished /\ exitCode = 0,
      [ c EXCEPT !.modified = FALSE, !.currentIsoPath = filePath ])

\* saveIsoFinish that looks at waitForFinished alone, not at the exit code.
saveIsoFinish_IgnoreExitCode(c, filePath, finished, exitCode) ==
  IF ~finished THEN Ret(FALSE, c)
  ELSE Ret(TRUE, [ c EXCEPT !.modified = FALSE, !.currentIsoPath = filePath ])

\* saveIso from the return of waitForFinished(-1) on: finished is its value.
saveIsoFinish(c, filePath, finished, exitCode) ==
  IF ~finished \/ exitCode # 0 THEN Ret(FALSE, c)
  ELSE Ret(TRUE, [ c EXCEPT !.modified = FALSE, !.currentIsoPath = filePath ])

(***************************************************************************)
(* The ISOCore of src/src/ISOCore.cpp (PIMPL)                              *)
(***************************************************************************)

\* ISOCore::Impl::Impl(): the fields the operations below read or write.
\* QString members start empty.  volumeSize, bootEmulationType and
\* extractedBootInfo take no part in them.
ImplNew ==
  [ currentIsoPath |-> << >>, volumeId |-> "NEW_ISO", systemId |-> "TK_ISO_EDITOR",
    bootImagePath |-> << >>, efiBootImagePath |-> << >>,
    modified |-> FALSE, loaded |-> FALSE ]

closeIso(p) == IF p.loaded THEN [ p EXCEPT !.loaded = FALSE ] ELSE p

\* ISOCore::initNewIso of the PIMPL core.
pimplInitNewIso(p) ==
  [ closeIso(p) EXCEPT !.currentIsoPath = << >>, !.volumeId = "NEW_ISO",
                       !.systemId = "TK_ISO_EDITOR", !.bootImagePath = << >>,
                       !.efiBootImagePath = << >>, !.modified = FALSE, !.loaded = FALSE ]

\* ISOCore::loadIso of the PIMPL core: it opens nothing and returns true.
pimplLoadIso(p, filePath) ==
  Ret(TRUE, [ p EXCEPT !.currentIsoPath = filePath, !.loaded = TRUE, !.modified = FALSE,
                       !.volumeId = "LOADED_ISO", !.systemId = "LINUX" ])

\* ISOCore::saveIso of the PIMPL core: it writes nothing and returns true.
pimplSaveIso(p, filePath) ==
  Ret(TRUE, [ p EXCEPT !.currentIsoPath = filePath, !.modified = FALSE ])

setVolumeId(p, volumeId) == [ p EXCEPT !.volumeId = volumeId, !.modified = TRUE ]

setSystemId(p, systemId) == [ p EXCEPT !.systemId = systemId, !.modified = TRUE ]

pimplSetBootImagePath(p, path) == [ p EXCEPT !.bootImagePath = path, !.modified = TRUE ]

(***************************************************************************)
(* The session as a state machine                                          *)
(***************************************************************************)

VARIABLES
  core,   \* the fields of the ISOCore: heap, rootNode, modified, currentIsoPath,
          \* bootImagePath, efiBootImagePath, volumeDescriptor
  call,   \* the saveIso call that waits for the mastering tool, if any
  last,   \* what the most recent call returned, if it returns a value: its name,
          \* its path and the value
  volume, \* history: the image the block addresses (lsn) of the tree were read
          \* from, << >> for a tree no ISO load has built
  worker, \* a Worker: its private ISOCore (m_core), for every thread the slot
          \* it is executing on this Worker and the path it was called with, and
          \* the tree pointers the receivers of loadFinished hold
  editor, \* the ISOEditor window over core: the IsoNode pointers m_treeItemMap
          \* holds, and whether the process has died
  pimpl   \* the fields of the Impl of an ISOCore of src/src/ISOCore.cpp that is
          \* driven side by side with core

vars == << core, call, last, volume, worker, editor, pimpl >>

NoCall == [ pc |-> "idle", filePath |-> << >>, useUdf |-> FALSE, makeHybrid |-> FALSE,
            args |-> << >>, disk |-> << >>, proc |-> "none", exitCode |-> 0 ]

Done(op, path, ok) == [ op |-> op, path |-> path, ok |-> ok ]

\* Inputs of the operations.
FolderNames == { "D", "d" }
AddPaths == { <<"k", "D">>, <<"m", "d">>, <<"h", "nope">> }
ImportPaths == { <<"h", "D">>, <<"k", "D">> }
LoadPaths == { <<"img", "a.iso">>, <<"img", "bad.iso">>,
               <<"cd", "a.cue">>, <<"cd", "nofile.cue">>, <<"cd", "GONE.CUE">> }
BootPaths == { << >>, <<"h", "boot.img">> }
EfiPaths == { << >>, <<"h", "efi.img">> }
UserDescriptors == { [ systemId |-> "SYS", volumeId |-> "VOL" ] }
ExitCodes == { 0, 1 }

\* The IsoNode* values a caller passes: a live node or nullptr.
Pointers == DOMAIN core.heap \cup { NULL }

\* The host decisions that can differ in their effect on one saveIso call.
SaveEnvs ==
  { SaveEnv(FALSE, 0, TRUE, TRUE, TRUE) } \cup
  { SaveEnv(TRUE, k, TRUE, TRUE, TRUE) : k \in 1..(2 * MaxNodes) } \cup
  { SaveEnv(TRUE, 0, b, e, s) : b \in BOOLEAN, e \in BOOLEAN, s \in BOOLEAN }

Fits(c) == Cardinality(DOMAIN c.heap) <= MaxNodes

\* The threads that hold a pointer to the Worker.
Threads == 1..MaxThreads

\* Worker::Worker(): m_core is default-constructed; no thread is in a slot.
WorkerNew ==
  [ m_core |-> ISOCoreNew,
    pc |-> [ t \in Threads |-> "idle" ],
    filePath |-> [ t \in Threads |-> << >> ],
    held |-> { },
    crashed |-> FALSE ]

\* An IsoNode* held outside the core: the node it was taken from, and whether
\* that node has been deleted since.
Ptr(node) == [ node |-> node, dangling |-> FALSE ]

\* ISOEditor::refreshView on core c: m_treeItemMap is cleared and gets one
\* item for the root and, through populateTreeNode, one for every node below.
refreshView(c) ==
  IF c.rootNode = NULL THEN { } ELSE { Ptr(n) : n \in Subtree(c.heap, c.rootNode) }

Init ==
  /\ core = ISOCoreNew
  /\ call = NoCall
  /\ last = Done("void", << >>, TRUE)
  /\ volume = << >>
  /\ worker = WorkerNew
  /\ editor = [ treeItemMap |-> refreshView(ISOCoreNew), crashed |-> FALSE ]
  /\ pimpl = ImplNew

\* A void operation of the core ran to completion: it leaves no result.
Void(c) ==
  /\ call.pc = "idle"
  /\ Fits(c)
  /\ core' = c
  /\ last' = Done("void", << >>, TRUE)
  /\ UNCHANGED << call, worker, editor, pimpl >>

InitNewIso ==
  /\ call.pc = "idle"
  /\ core' = initNewIso(core)
  /\ last' = Done("initNewIso", << >>, TRUE)
  /\ volume' = << >>
  /\ UNCHANGED << call, worker, editor, pimpl >>

\* A void operation that keeps the nodes the tree was loaded with.
Edit(c) == Void(c) /\ UNCHANGED volume

AddFolderToDirectoryIn(names, targets) ==
  \E folderName \in names, targetNode \in targets :
    Edit(addFolderToDirectory(core, folderName, targetNode))

AddFileToDirectoryIn(paths, targets) ==
  \E filePath \in paths, targetNode \in targets :
    Edit(addFileToDirectory(core, filePath, targetNode))

ImportDirectoryIn(paths, targets) ==
  \E dirPath \in paths, targetNode \in targets :
    Edit(importDirectory(core, dirPath, targetNode))

RemoveNode ==
  \E node \in Pointers : Edit(removeNode(core, node))

SetVolumeDescriptor ==
  \E vd \in UserDescriptors : Edit(setVolumeDescriptor(core, vd))

SetBootImagePath ==
  \E path \in BootPaths : Edit(setBootImagePath(core, path))

SetEfiBootImagePath ==
  \E path \in EfiPaths : Edit(setEfiBootImagePath(core, path))

LoadIsoFrom(paths) ==
  \E filePath \in paths :
    /\ call.pc = "idle"
    /\ LET r == loadIso(core, filePath)
       IN  /\ Fits(r.c)
           /\ core' = r.c
           /\ last' = Done("loadIso", filePath, r.ok)
           /\ volume' = IF compareCaseInsensitive(suffix(filePath), "cue")
                         THEN IF r.ok THEN << >> ELSE volume
                         ELSE IF r.ok THEN filePath ELSE << >>
    /\ UNCHANGED << call, worker, editor, pimpl >>

\* saveIso is entered, with the current path (Save) or a chosen one (Save As);
\* it returns false at once or starts the tool and waits.  Where a block read
\* of getFileData has written past its buffer the behaviour is undefined: the
\* call goes on, or the process dies (pc = "dead").
SaveIsoStart ==
  \E filePath \in ({ SaveAsPath, core.currentIsoPath } \ { << >> }),
     useUdf \in BOOLEAN, makeHybrid \in BOOLEAN, env \in SaveEnvs :
    /\ call.pc = "idle"
    /\ LET r == saveIsoStart(core, filePath, useUdf, makeHybrid, env)
           f == saveIsoFinish(core, filePath, FALSE, 0)
       IN  \/ IF r.returned
              THEN /\ core' = f.c
                   /\ last' = Done("saveIso", filePath, f.ok)
                   /\ call' = NoCall
              ELSE /\ call' = [ pc |-> "waiting", filePath |-> filePath, useUdf |-> useUdf,
                                makeHybrid |-> makeHybrid, args |-> r.args,
                                disk |-> r.disk, proc |-> "running", exitCode |-> 0 ]
                   /\ last' = Done("void", << >>, TRUE)
                   /\ core' = core
           \/ /\ r.overrun
              /\ call' = [ NoCall EXCEPT !.pc = "dead" ]
              /\ last' = Done("void", << >>, TRUE)
              /\ core' = core
    /\ UNCHANGED << volume, worker, editor, pimpl >>

\* The mastering tool exits.  The files of the host are read-only to it: it
\* exits with 0 only when the output path is none of them.
ProcessExit ==
  \E exitCode \in ExitCodes :
    /\ call.pc = "waiting"
    /\ call.proc = "running"
    /\ exitCode = 0 => ~isFile(call.filePath)
    /\ call' = [ call EXCEPT !.proc = "exited", !.exitCode = exitCode ]
    /\ UNCHANGED << core, last, volume, worker, editor, pimpl >>

\* waitForFinished(-1) returns once the tool has exited; saveIso completes.
SaveIsoReturn ==
  /\ call.pc = "waiting"
  /\ call.proc = "exited"
  /\ LET r == saveIsoFinish(core, call.filePath, TRUE, call.exitCode)
     IN  /\ core' = r.c
         /\ last' = Done("saveIso", call.filePath, r.ok)
  /\ call' = NoCall
  /\ UNCHANGED << volume, worker, editor, pimpl >>

\* Editing: every tree operation on every node, and every load.
AddFolderToDirectory == AddFolderToDirectoryIn(FolderNames, Pointers)
AddFileToDirectory == AddFileToDirectoryIn(AddPaths, Pointers)
ImportDirectory == ImportDirectoryIn(ImportPaths, Pointers)
LoadIso == LoadIsoFrom(LoadPaths)

Next ==
  \/ InitNewIso
  \/ LoadIso
  \/ AddFolderToDirectory
  \/ AddFileToDirectory
  \/ ImportDirectory
  \/ RemoveNode

Spec == Init /\ [][Next]_vars

\* Saving: the loads that succeed, additions to the root, the boot image
\* paths, and saveIso with every decision of the host.
AddFolderToRoot == AddFolderToDirectoryIn({ "D" }, { core.rootNode })
AddFileToRoot == AddFileToDirectoryIn({ <<"k", "D">>, <<"m", "d">> }, { core.rootNode })
LoadImage == LoadIsoFrom({ <<"img", "a.iso">>, <<"cd", "a.cue">>, <<"cd", "nobin.cue">> })

SaveNext ==
  \/ InitNewIso
  \/ LoadImage
  \/ AddFolderToRoot
  \/ AddFileToRoot
  \/ SetBootImagePath
  \/ SetEfiBootImagePath
  \/ SaveIsoStart
  \/ ProcessExit
  \/ SaveIsoReturn

SaveSpec == Init /\ [][SaveNext]_vars

\* The core runs on once the tool has exited; nothing makes the tool exit.
FairSaveSpec == SaveSpec /\ WF_vars(SaveIsoReturn)

\* Sessions: every load, also of sheets whose companion file is missing or
\* ends before the last track starts or whose second track starts before the
\* first, additions to the root and the edits of the properties dialog.
SourcePaths ==
  LoadPaths \cup { <<"cd", "nobin.cue">>, <<"cd", "late.cue">>, <<"cd", "back.cue">> }
LoadSource == LoadIsoFrom(SourcePaths)

SessionNext ==
  \/ InitNewIso
  \/ LoadSource
  \/ AddFolderToRoot
  \/ AddFileToRoot
  \/ SetVolumeDescriptor
  \/ SetBootImagePath
  \/ SetEfiBootImagePath

SessionSpec == Init /\ [][SessionNext]_vars

\* A Worker shared by threads.  Its slots are public member functions: a
\* thread that holds the Worker enters one by calling it, and nothing in
\* Worker or ISOCore makes a caller wait for a call that is in progress.
\* A call that runs while another thread is inside a slot of the same Worker
\* races with it on m_core (both delete and rebuild the same tree): it either
\* completes or brings the process down.
\* Thread t calls the slot with the path.
SlotCall(slot, paths) ==
  \E t \in Threads, filePath \in paths :
    /\ ~worker.crashed
    /\ worker.pc[t] = "idle"
    /\ worker' = [ worker EXCEPT !.pc[t] = slot, !.filePath[t] = filePath ]
    /\ UNCHANGED << core, call, last, volume, editor, pimpl >>

\* The slot thread t is in runs to its emit and returns, leaving m_core as c
\* and the receivers with the pointers held, or, in a race, the process dies.
SlotReturn(t, c, held) ==
  /\ ~worker.crashed
  /\ \/ /\ Fits(c)
        /\ worker' = [ worker EXCEPT !.m_core = c, !.pc[t] = "idle", !.filePath[t] = << >>,
                                     !.held = held ]
     \/ /\ \E u \in Threads \ { t } : worker.pc[u] # "idle"
        /\ worker' = [ worker EXCEPT !.crashed = TRUE ]
  /\ UNCHANGED << core, call, last, volume, editor, pimpl >>

DoLoadIsoCall ==
  SlotCall("doLoadIso", { <<"img", "a.iso">>, <<"img", "b.iso">>, <<"img", "bad.iso">>,
                          <<"cd", "a.cue">> })

DoLoadIsoReturn ==
  \E t \in Threads :
    /\ worker.pc[t] = "doLoadIso"
    /\ LET r == loadIso(worker.m_core, worker.filePath[t])
           freed == IF compareCaseInsensitive(suffix(worker.filePath[t]), "cue") /\ ~r.ok
                    THEN { }
                    ELSE Subtree(worker.m_core.heap, worker.m_core.rootNode)
       IN  SlotReturn(t, r.c,
                      { [ p EXCEPT !.dangling = @ \/ p.node \in freed ] : p \in worker.held }
                        \cup { Ptr(r.c.rootNode) })

\* A receiver of loadFinished lets go of the pointer it was given.
ReceiverDrops ==
  \E p \in worker.held :
    /\ ~worker.crashed
    /\ worker' = [ worker EXCEPT !.held = @ \ { p } ]
    /\ UNCHANGED << core, call, last, volume, editor, pimpl >>

\* useUdf and makeHybrid only shape the arguments of the tool: the calls are
\* made with (true, false).
DoSaveIsoCall == SlotCall("doSaveIso", { SaveAsPath })

DoSaveIsoReturn ==
  \E t \in Threads, faultAt \in { 0, 1 }, exitCode \in ExitCodes :
    /\ worker.pc[t] = "doSaveIso"
    /\ LET filePath == worker.filePath[t]
           s == saveIsoStart(worker.m_core, filePath, TRUE, FALSE,
                             SaveEnv(TRUE, faultAt, TRUE, TRUE, TRUE))
           r == saveIsoFinish(worker.m_core, filePath, ~s.returned, exitCode)
       IN  \/ SlotReturn(t, r.c, worker.held)
           \/ /\ s.overrun
              /\ ~worker.crashed
              /\ worker' = [ worker EXCEPT !.crashed = TRUE ]
              /\ UNCHANGED << core, call, last, volume, editor, pimpl >>

WorkerNext ==
  \/ DoLoadIsoCall
  \/ DoLoadIsoReturn
  \/ DoSaveIsoCall
  \/ DoSaveIsoReturn
  \/ ReceiverDrops

WorkerSpec == Init /\ [][WorkerNext]_vars

\* The ISOEditor window: its event handlers run one at a time on the GUI
\* thread, core is its m_core.  A handler that ends with refreshView rebuilds
\* m_treeItemMap; one that does not leaves the pointers it holds, and those to
\* the nodes in freed have become dangling.
Handled(c, l, v, refresh, freed) ==
  /\ call.pc = "idle"
  /\ ~editor.crashed
  /\ Fits(c)
  /\ core' = c
  /\ last' = l
  /\ volume' = v
  /\ editor' = [ editor EXCEPT !.treeItemMap =
                   IF refresh THEN refreshView(c)
                   ELSE { [ p EXCEPT !.dangling = @ \/ p.node \in freed ] : p \in @ } ]
  /\ UNCHANGED << call, worker, pimpl >>

\* getSelectedNode(): the pointer of the selected item, the root without a
\* selection.
getSelectedNode == editor.treeItemMap \cup { Ptr(core.rootNode) }

\* `if (!targetNode->isDirectory) targetNode = targetNode->parent;`
targetOf(node) == IF core.heap[node].isDirectory THEN node ELSE core.heap[node].parent

\* The loop of addFile over the chosen files.
RECURSIVE addFiles(_, _, _)
addFiles(c, filePaths, targetNode) ==
  IF filePaths = << >> THEN c
  ELSE addFiles(addFileToDirectory(c, Head(filePaths), targetNode), Tail(filePaths),
                targetNode)

\* The loop of handleDrop over the dropped paths.
RECURSIVE dropPaths(_, _, _)
dropPaths(c, filePaths, targetNode) ==
  IF filePaths = << >> THEN c
  ELSE LET path == Head(filePaths)
           c1 == IF isDir(path) THEN importDirectory(c, path, targetNode)
                 ELSE IF isFile(path) THEN addFileToDirectory(c, path, targetNode)
                 ELSE c
       IN  dropPaths(c1, Tail(filePaths), targetNode)

NewIso == Handled(initNewIso(core), Done("initNewIso", << >>, TRUE), << >>, TRUE, { })

\* openIso refreshes the view only when loadIso returned true.  A loadIso that
\* is not of a CUE sheet has freed the whole tree in initNewIso (line 116)
\* before it fails; loadCueSheet fails before it frees anything.
OpenIso ==
  \E filePath \in { <<"img", "a.iso">>, <<"img", "bad.iso">>, <<"cd", "nofile.cue">> } :
    LET r == loadIso(core, filePath)
    IN  Handled(r.c, Done("loadIso", filePath, r.ok),
                IF compareCaseInsensitive(suffix(filePath), "cue") THEN (IF r.ok THEN << >> ELSE volume)
                ELSE (IF r.ok THEN filePath ELSE << >>),
                r.ok,
                IF compareCaseInsensitive(suffix(filePath), "cue") THEN { } ELSE Subtree(core.heap, core.rootNode))

\* The handlers that start from getSelectedNode() use a pointer that is not
\* dangling; HandlerCrash is their run on one that is.
AddFolder ==
  \E p \in getSelectedNode, folderName \in { "D" } :
    /\ ~p.dangling
    /\ Handled(addFolderToDirectory(core, folderName, targetOf(p.node)),
               Done("void", << >>, TRUE), volume, TRUE, { })

AddFile ==
  \E p \in getSelectedNode, filePaths \in { << <<"k", "D">> >>, << <<"k", "D">>, <<"m", "d">> >> } :
    /\ ~p.dangling
    /\ Handled(addFiles(core, filePaths, targetOf(p.node)),
               Done("void", << >>, TRUE), volume, TRUE, { })

RemoveSelected ==
  \E p \in getSelectedNode :
    /\ ~p.dangling
    /\ p.node # core.rootNode
    /\ Handled(removeNode(core, p.node), Done("void", << >>, TRUE), volume, TRUE, { })

HandleDrop ==
  \E p \in getSelectedNode, filePaths \in { << <<"h", "D">> >>, << <<"k", "D">> >>, << <<"k", "D">>, <<"h", "D">> >> } :
    /\ ~p.dangling
    /\ Handled(dropPaths(core, filePaths, targetOf(p.node)),
               Done("void", << >>, TRUE), volume, TRUE, { })

\* saveIso / saveIsoAs: the core's saveIso runs to its end inside the handler;
\* the view is refreshed only after a success.  A block read past its buffer
\* may bring the process down.
SaveIso ==
  \E filePath \in ({ SaveAsPath, core.currentIsoPath } \ { << >> }),
     faultAt \in { 0, 1 }, exitCode \in ExitCodes :
    /\ exitCode = 0 => ~isFile(filePath)
    /\ LET s == saveIsoStart(core, filePath, TRUE, FALSE,
                             SaveEnv(TRUE, faultAt, TRUE, TRUE, TRUE))
           r == saveIsoFinish(core, filePath, ~s.returned, exitCode)
       IN  \/ Handled(r.c, Done("saveIso", filePath, r.ok), volume, r.ok, { })
           \/ /\ s.overrun
              /\ call.pc = "idle"
              /\ ~editor.crashed
              /\ editor' = [ editor EXCEPT !.crashed = TRUE ]
              /\ UNCHANGED << core, call, last, volume, worker, pimpl >>

ShowIsoProperties ==
  \E vd \in UserDescriptors, bootImagePath \in { <<"h", "boot.img">> },
     efiBootImagePath \in { << >> } :
    Handled(setEfiBootImagePath(
              setBootImagePath(setVolumeDescriptor(core, vd), bootImagePath),
              efiBootImagePath),
            Done("void", << >>, TRUE), volume, TRUE, { })

\* addFolder, addFile, removeSelected or handleDrop reads through a dangling
\* pointer that getSelectedNode() returned: the behaviour is undefined, the
\* process dies or goes on with whatever lies at the address (not followed).
HandlerCrash ==
  /\ call.pc = "idle"
  /\ ~editor.crashed
  /\ \E p \in getSelectedNode : p.dangling
  /\ editor' = [ editor EXCEPT !.crashed = TRUE ]
  /\ UNCHANGED << core, call, last, volume, worker, pimpl >>

EditorNext ==
  \/ NewIso
  \/ OpenIso
  \/ AddFolder
  \/ AddFile
  \/ RemoveSelected
  \/ HandleDrop
  \/ SaveIso
  \/ ShowIsoProperties
  \/ HandlerCrash

EditorSpec == Init /\ [][EditorNext]_vars

(***************************************************************************)
(* Properties                                                              *)
\* The two ISOCore implementations side by side: every step applies one
\* operation to core and the operation of the same name to pimpl.
Both(c, p, l, v) ==
  /\ call.pc = "idle"
  /\ Fits(c)
  /\ core' = c
  /\ pimpl' = p
  /\ last' = l
  /\ volume' = v
  /\ UNCHANGED << call, worker, editor >>

PairInitNewIso ==
  Both(initNewIso(core), pimplInitNewIso(pimpl), Done("initNewIso", << >>, TRUE), << >>)

\* loadIso where it returns true in both cores.
PairLoadIso ==
  \E filePath \in LoadPaths :
    LET r == loadIso(core, filePath)
        q == pimplLoadIso(pimpl, filePath)
    IN  /\ r.ok /\ q.ok
        /\ Both(r.c, q.c, Done("loadIso", filePath, TRUE),
                IF compareCaseInsensitive(suffix(filePath), "cue") THEN << >> ELSE filePath)

\* saveIso where it returns true in both cores: the tool was started, has
\* exited with 0 and the path is none of the host's read-only files.  A block
\* read past its buffer may bring the process down instead.
PairSaveIso ==
  \E filePath \in ({ SaveAsPath, core.currentIsoPath } \ { << >> }) :
    LET s == saveIsoStart(core, filePath, TRUE, FALSE, SaveEnv(TRUE, 0, TRUE, TRUE, TRUE))
        r == saveIsoFinish(core, filePath, ~s.returned, 0)
        q == pimplSaveIso(pimpl, filePath)
    IN  /\ ~isFile(filePath)
        /\ r.ok /\ q.ok
        /\ \/ Both(r.c, q.c, Done("saveIso", filePath, TRUE), volume)
           \/ /\ s.overrun
              /\ call.pc = "idle"
              /\ call' = [ NoCall EXCEPT !.pc = "dead" ]
              /\ last' = Done("void", << >>, TRUE)
              /\ UNCHANGED << core, volume, worker, editor, pimpl >>

\* The volume id is set: through setVolumeDescriptor with the system id kept
\* in the one core, through setVolumeId in the other.
PairSetVolumeId ==
  \E volumeId \in { "NEW_ISO", "VOL" } :
    Both(setVolumeDescriptor(core, [ core.volumeDescriptor EXCEPT !.volumeId = volumeId ]),
         setVolumeId(pimpl, volumeId), Done("void", << >>, TRUE), volume)

PairSetSystemId ==
  \E systemId \in { "SYS" } :
    Both(setVolumeDescriptor(core, [ core.volumeDescriptor EXCEPT !.systemId = systemId ]),
         setSystemId(pimpl, systemId), Done("void", << >>, TRUE), volume)

PairSetBootImagePath ==
  \E path \in BootPaths :
    Both(setBootImagePath(core, path), pimplSetBootImagePath(pimpl, path),
         Done("void", << >>, TRUE), volume)

PairNext ==
  \/ PairInitNewIso
  \/ PairLoadIso
  \/ PairSaveIso
  \/ PairSetVolumeId
  \/ PairSetSystemId
  \/ PairSetBootImagePath

PairSpec == Init /\ [][PairNext]_vars

(***************************************************************************)

Children(n) == core.heap[n].children
ChildNode(n, i) == core.heap[Children(n)[i]]
Root == core.heap[core.rootNode]
IsCuePath(path) == compareCaseInsensitive(suffix(path), "cue")

\* A file node that is neither Pending nor Track-resident.
VolumeResident(n) ==
  /\ ~core.heap[n].isDirectory
  /\ ~core.heap[n].isNew
  /\ ~core.heap[n].isCueTrack

\* sub occurs in s as a run of consecutive elements.
Contains(s, sub) ==
  \E i \in 1..(Len(s) - Len(sub) + 1) : SubSeq(s, i, i + Len(sub) - 1) = sub

Has(s, x) == \E i \in 1..Len(s) : s[i] = x

\* C1: no directory has two children whose names are equal when compared
\* case-insensitively, whatever their kinds.
C1_SiblingNamesUnique ==
  \A n \in DOMAIN core.heap :
    \A i, j \in 1..Len(Children(n)) :
      i # j => ~compareCaseInsensitive(ChildNode(n, i).name, ChildNode(n, j).name)

\* C2: the file getFileData opens for a Volume-resident node is the image its
\* block address was loaded from.
C2_ReadsOriginalImage ==
  \A n \in DOMAIN core.heap : VolumeResident(n) => imagePathRead(core) = volume

\* C3: a saveIso that returns false leaves every field of the core, the tree
\* included, as it was before the call.
C3_FailedSaveChangesNothing ==
  [][(last'.op = "saveIso" /\ ~last'.ok) => core' = core]_vars

\* A saveIso call has failed on a modified, non-empty tree whose current path
\* is not the path it was asked to write.
C3_Witness ==
  /\ last.op = "saveIso"
  /\ ~last.ok
  /\ core.modified
  /\ Children(core.rootNode) # << >>
  /\ core.currentIsoPath # last.path

\* The bytes of file node n cannot be read from its backing store.
Unresolvable(n) ==
  /\ ~core.heap[n].isDirectory
  /\ ~core.heap[n].isNew
  /\ IF core.heap[n].isCueTrack THEN ~isFile(core.heap[n].cueBinFile)
     ELSE core.currentIsoPath = << >> \/ ~isoOpens(core.currentIsoPath)

\* C4: saveIso does not report success for a tree that holds a file node
\* whose bytes cannot be resolved.
C4_UnresolvedBytesFailSave ==
  [][(last'.op = "saveIso" /\ last'.ok) =>
       \A n \in DOMAIN core.heap : ~Unresolvable(n)]_vars

\* C5: an importDirectory into a directory that has a child named like the
\* host directory changes nothing, the modified flag included.
C5_ImportCollisionAborts ==
  [][\A dirPath \in ImportPaths, targetNode \in DOMAIN core.heap :
       ( /\ isDir(dirPath)
         /\ core.heap[targetNode].isDirectory
         /\ \E i \in 1..Len(Children(targetNode)) :
              ChildNode(targetNode, i).name = fileName(dirPath)
         /\ core' = importDirectory(core, dirPath, targetNode) )
       => core' = core]_vars

\* The tree is a root without children and no other node is live.
FreshTree ==
  /\ DOMAIN core.heap = { core.rootNode }
  /\ Root.name = "/"
  /\ Root.isDirectory
  /\ Root.children = << >>

\* C6: after a loadIso of a CUE sheet that returned false the session holds a
\* fresh empty tree.
C6_FailedCueLoadLeavesFreshTree ==
  (last.op = "loadIso" /\ ~last.ok /\ IsCuePath(last.path)) => FreshTree

\* C7: after a loadIso of an ISO image that returned false the session is
\* fresh: root-only tree, not modified, no current path.
C7_FailedIsoLoadResets ==
  (last.op = "loadIso" /\ ~last.ok /\ ~IsCuePath(last.path)) =>
    (FreshTree /\ ~core.modified /\ core.currentIsoPath = << >>)

\* A loadIso of an image the library cannot open has returned false.
C7_Witness ==
  /\ last.op = "loadIso"
  /\ ~last.ok
  /\ last.path = <<"img", "bad.iso">>

\* C8: a saveIso that waits for the mastering tool returns.
C8_SaveIsoReturns == (call.pc = "waiting") ~> (call.pc = "idle")

\* The arguments and the staging directory of the call hold the boot image at
\* path: option, file name and -no-emul-boot, and a copy of the file.
BootStaged(option, path) ==
  /\ Contains(call.args, << Arg(option), Arg(fileName(path)), Arg("-no-emul-boot") >>)
  /\ Append(TempDirPath, fileName(path)) \in DOMAIN call.disk
  /\ call.disk[Append(TempDirPath, fileName(path))] = FileEntry(readAll(path))

\* C9: a saveIso that reports success has passed the boot arguments for every
\* boot image path that is set, and has staged that image.
C9_SuccessHasBootArguments ==
  [][(last'.op = "saveIso" /\ last'.ok) =>
       /\ core.bootImagePath # << >> => BootStaged("-b", core.bootImagePath)
       /\ core.efiBootImagePath # << >> =>
            BootStaged("-eltorito-boot", core.efiBootImagePath)]_vars

\* C10: the arguments the mastering tool is started with follow the grammar:
\* -R -J always, -udf iff useUdf, and with makeHybrid exactly one hybrid
\* argument, chosen by whether an EFI image path is set.
C10_ArgumentGrammar ==
  call.pc = "waiting" =>
    /\ Contains(call.args, << Arg("-R"), Arg("-J") >>)
    /\ Has(call.args, Arg("-udf")) <=> call.useUdf
    /\ Has(call.args, Arg("-isohybrid-gpt-basdat")) <=>
         (call.makeHybrid /\ core.efiBootImagePath # << >>)
    /\ Has(call.args, Arg("-isohybrid-mbr")) <=>
         (call.makeHybrid /\ core.efiBootImagePath = << >>)

\* The tree, the volume descriptor and the boot image paths of c and d are
\* the same.
SameContent(c, d) ==
  /\ c.heap = d.heap
  /\ c.rootNode = d.rootNode
  /\ c.volumeDescriptor = d.volumeDescriptor
  /\ c.bootImagePath = d.bootImagePath
  /\ c.efiBootImagePath = d.efiBootImagePath

\* C11: an editing operation that changes neither the tree, the volume
\* descriptor nor a boot image path (it was rejected, or set an identical
\* value) leaves the modified flag as it was.
C11_RejectedOperationKeepsFlag ==
  [][(last'.op = "void" /\ SameContent(core, core')) =>
       core'.modified = core.modified]_vars

\* The session is fresh: a root named "/" without children and no other node,
\* not modified, no current path, volume id "NEW_ISO".
FreshSession ==
  /\ FreshTree
  /\ ~core.modified
  /\ core.currentIsoPath = << >>
  /\ core.volumeDescriptor.volumeId = "NEW_ISO"

\* C12: the session is fresh after construction and after every initNewIso,
\* whatever the state it was called in.
C12_InitNewIsoIsFresh ==
  FreshSession /\ [](last.op = "initNewIso" => FreshSession)

\* initNewIso has returned and left a fresh session.
C12_Witness == last.op = "initNewIso" /\ FreshSession

\* Directory n has a child whose name equals name case-insensitively.
HasSiblingNamed(n, name) ==
  \E i \in 1..Len(Children(n)) : compareCaseInsensitive(ChildNode(n, i).name, name)

\* C13: addFolderToDirectory with a name that equals, case-insensitively, the
\* name of an existing child of the target changes nothing.
C13_AddFolderOnCollisionIsNoOp ==
  [][\A folderName \in FolderNames, targetNode \in DOMAIN core.heap :
       ( /\ last'.op = "void"
         /\ core.heap[targetNode].isDirectory
         /\ HasSiblingNamed(targetNode, folderName)
         /\ core' = addFolderToDirectory(core, folderName, targetNode) )
       => core' = core]_vars

\* The positions, among the children of directory n in core c, of the nodes
\* whose name equals name case-insensitively.
Named(c, n, name) ==
  { i \in 1..Len(c.heap[n].children) :
      compareCaseInsensitive(c.heap[c.heap[n].children[i]].name, name) }

\* C14: addFileToDirectory of a host file whose name matches an existing file
\* child of the target leaves exactly one child with that name, which carries
\* the size and the content of the file just added, and the number of children
\* does not grow.
C14_AddFileOverwrites ==
  [][\A filePath \in AddPaths, targetNode \in DOMAIN core.heap :
       ( /\ last'.op = "void"
         /\ isFile(filePath)
         /\ core.heap[targetNode].isDirectory
         /\ \E i \in Named(core, targetNode, fileName(filePath)) :
              ~ChildNode(targetNode, i).isDirectory
         /\ core' = addFileToDirectory(core, filePath, targetNode) )
       => /\ Len(core'.heap[targetNode].children) = Len(Children(targetNode))
          /\ Cardinality(Named(core', targetNode, fileName(filePath))) = 1
          /\ \A i \in Named(core', targetNode, fileName(filePath)) :
               LET node == core'.heap[core'.heap[targetNode].children[i]]
               IN  /\ node.size = HostFiles[filePath]
                   /\ node.fileData = readAll(filePath)]_vars

\* s without its elements equal to x, the others in their order.
Without(s, x) == SelectSeq(s, LAMBDA k : k # x)

\* Core c with one more node, which a caller has constructed and which is in
\* no tree: its parent is nullptr.
WithDetached(c) == [ c EXCEPT !.heap = c.heap @@ (Alloc(c.heap) :> IsoNode) ]

\* d is c after the removal of node with its whole subtree, and nothing else.
Removed(c, d, node) ==
  LET parent == c.heap[node].parent
  IN  /\ DOMAIN d.heap = (DOMAIN c.heap) \ Subtree(c.heap, node)
      /\ \A m \in DOMAIN d.heap :
           d.heap[m] = IF m = parent
                       THEN [ c.heap[m] EXCEPT !.children = Without(@, node) ]
                       ELSE c.heap[m]
      /\ d.modified
      /\ d = [ c EXCEPT !.heap = d.heap, !.modified = TRUE ]

\* C15: removeNode of a non-root node removes the node with its subtree, leaves
\* every other node and the order of its siblings alone and sets modified;
\* removeNode of the root, of nullptr or of a parentless node changes nothing.
C15_RemoveNodeRemovesSubtree ==
  /\ [][\A node \in (DOMAIN core.heap) \ { core.rootNode } :
          ( /\ last'.op = "void"
            /\ node \notin DOMAIN core'.heap
            /\ core' = removeNode(core, node) )
          => Removed(core, core', node)]_vars
  /\ [](/\ \A node \in Subtree(core.heap, core.rootNode) \ { core.rootNode } :
             node \notin DOMAIN removeNode(core, node).heap
        /\ removeNode(core, core.rootNode) = core
        /\ removeNode(core, NULL) = core
        /\ removeNode(WithDetached(core), Alloc(core.heap)) = WithDetached(core))

\* A node with a child has been removed while a younger sibling stays: the ids
\* of the node and of its child are free below a live id.
C15_Witness ==
  /\ last.op = "void"
  /\ core.modified
  /\ \E i \in DOMAIN core.heap :
       /\ i >= 3
       /\ core.heap[i].parent = core.rootNode
       /\ (i - 1) \notin DOMAIN core.heap
       /\ (i - 2) \notin DOMAIN core.heap

\* C16: when saveIso reports success the tool has exited with code 0, and
\* afterwards the session is not modified and its current path is the output
\* path of the call.
C16_SuccessfulSaveUpdatesSession ==
  [][(last'.op = "saveIso" /\ last'.ok) =>
       /\ call.proc = "exited"
       /\ call.exitCode = 0
       /\ last'.path = call.filePath
       /\ ~core'.modified
       /\ core'.currentIsoPath = call.filePath]_vars

\* A save of an edited tree to a new path has succeeded.
C16_Witness ==
  /\ last.op = "saveIso"
  /\ last.ok
  /\ last.path = SaveAsPath
  /\ core.currentIsoPath = SaveAsPath
  /\ ~core.modified
  /\ \E i \in 1..Len(Children(core.rootNode)) : ChildNode(core.rootNode, i).isNew

\* The entries of directory path of image fs that stand for a node: all but
\* "." and "..".
Entries(fs, path) ==
  SelectSeq(fs.dirs[path], LAMBDA s : s.filename # "." /\ s.filename # "..")

\* The number of entries below directory path of image fs.
RECURSIVE EntryCount(_, _)
EntryCount(fs, path) ==
  LET es == Entries(fs, path)
      Sum[i \in 0..Len(es)] ==
        IF i = 0 THEN 0
        ELSE Sum[i - 1] + 1 +
             (IF es[i].type = "dir" THEN EntryCount(fs, Append(path, es[i].filename)) ELSE 0)
  IN  Sum[Len(es)]

\* The children of node n are, in order, the entries of directory path of
\* image fs, and so on below them.
RECURSIVE MatchesDirectory(_, _, _)
MatchesDirectory(n, fs, path) ==
  LET es == Entries(fs, path)
  IN  /\ Len(Children(n)) = Len(es)
      /\ \A i \in 1..Len(es) :
           LET child == ChildNode(n, i)
           IN  /\ child.name = es[i].filename
               /\ child.parent = n
               /\ child.lsn = es[i].lsn
               /\ ~child.isNew
               /\ ~child.isCueTrack
               /\ IF es[i].type = "dir"
                  THEN /\ child.isDirectory
                       /\ MatchesDirectory(Children(n)[i], fs, Append(path, es[i].filename))
                  ELSE /\ ~child.isDirectory
                       /\ child.size = es[i].size
                       /\ child.children = << >>

\* The children of the root are, in order, the tracks of the sheet.
MatchesTracks(tracks) ==
  /\ Len(Children(core.rootNode)) = Len(tracks)
  /\ \A i \in 1..Len(tracks) :
       LET child == ChildNode(core.rootNode, i)
       IN  /\ child.name = trackName(tracks[i].track_number)
           /\ child.parent = core.rootNode
           /\ child.isCueTrack
           /\ ~child.isNew
           /\ ~child.isDirectory
           /\ child.children = << >>

\* The session holds what the source at path holds, and nothing else.
LoadedFrom(path) ==
  /\ ~core.modified
  /\ core.currentIsoPath = path
  /\ core.bootImagePath = << >>
  /\ core.efiBootImagePath = << >>
  /\ Root.name = "/"
  /\ Root.isDirectory
  /\ IF IsCuePath(path)
     THEN /\ MatchesTracks(CueSheets[path].tracks)
          /\ Cardinality(DOMAIN core.heap) = 1 + Len(CueSheets[path].tracks)
          /\ core.volumeDescriptor =
               [ systemId |-> "ISO_EDITOR",
                 volumeId |-> lastArg(CueSheets[path].lines, "TITLE", "") ]
     ELSE /\ MatchesDirectory(core.rootNode, IsoImages[path], << >>)
          /\ Cardinality(DOMAIN core.heap) = 1 + EntryCount(IsoImages[path], << >>)
          /\ core.volumeDescriptor =
               [ systemId |-> trimmed(IsoImages[path].systemId),
                 volumeId |-> trimmed(IsoImages[path].volumeId) ]

\* C17: after a loadIso that returned true the tree holds one node per
\* directory entry or track of the loaded source and no other node, the
\* session is not modified, its current path is the opened path, and neither
\* a boot image path nor a volume descriptor value of the session before is
\* left.
C17_LoadReplacesSession ==
  (last.op = "loadIso" /\ last.ok) => LoadedFrom(last.path)

\* An ISO image with a directory and a file in it has been loaded.
C17_Witness ==
  /\ last.op = "loadIso"
  /\ last.ok
  /\ last.path = <<"img", "a.iso">>
  /\ Cardinality(DOMAIN core.heap) = 3

\* The sum of the sizes of the first i children of the root.
RECURSIVE SizeSum(_)
SizeSum(i) == IF i = 0 THEN 0 ELSE SizeSum(i - 1) + ChildNode(core.rootNode, i).size

\* The offsets and sizes of the track nodes are those the sheet at path and
\* its companion file give.
TrackLayout(path) ==
  LET tracks == CueSheets[path].tracks
      n == Len(tracks)
      binPath == Append(dirOf(path), lastArg(CueSheets[path].lines, "FILE", ""))
      length == IF isFile(binPath) THEN HostFiles[binPath] ELSE 0
  IN  /\ Len(Children(core.rootNode)) = n
      /\ \A i \in 1..n :
           LET track == ChildNode(core.rootNode, i)
           IN  /\ track.cueOffset = tracks[i].data_start * 2352
               /\ track.size =
                    IF i < n THEN ChildNode(core.rootNode, i + 1).cueOffset - track.cueOffset
                    ELSE IF isFile(binPath) THEN length - track.cueOffset
                    ELSE 0
      /\ (n > 0 /\ isFile(binPath) /\ tracks[1].data_start = 0) => SizeSum(n) = length

\* C18: after a successful load of a CUE sheet every track node has the offset
\* data_start * 2352, every track but the last the size up to the next offset,
\* the last the rest of the companion file (0 without one), and the sizes of a
\* sheet that starts at 0 add up to the length of the companion file.
C18_TrackOffsetsAndSizes ==
  (last.op = "loadIso" /\ last.ok /\ IsCuePath(last.path)) => TrackLayout(last.path)

\* Every file node of the tree is Pending.
PendingOnly == \A n \in DOMAIN core.heap : core.heap[n].isDirectory \/ core.heap[n].isNew

\* The path node n is materialized at: the names from the root down to it,
\* below the staging directory.
RECURSIVE StagedPath(_)
StagedPath(n) ==
  IF n = core.rootNode THEN TempDirPath
  ELSE Append(StagedPath(core.heap[n].parent), core.heap[n].name)

\* disk holds the tree and nothing else: a directory per folder node, a file
\* with the node's content per file node.
RoundTrip(disk) ==
  LET nodes == (DOMAIN core.heap) \ { core.rootNode }
  IN  /\ DOMAIN disk = { StagedPath(n) : n \in nodes }
      /\ \A n, m \in nodes : StagedPath(n) = StagedPath(m) => n = m
      /\ \A n \in nodes :
           disk[StagedPath(n)] = IF core.heap[n].isDirectory THEN DirEntry
                                 ELSE FileEntry(core.heap[n].fileData)

\* C19: whenever saveIso is entered on a tree whose file nodes are all
\* Pending, materializing the tree into the empty staging directory of a host
\* that fails no operation succeeds and stages exactly the tree: its directory
\* shape, and for every file node the content read when it was added.
C19_PendingTreeRoundTrip ==
  [][(PendingOnly /\ call.pc = "idle" /\ (call'.pc = "waiting" \/ last'.op = "saveIso")) =>
       LET st == writeTreeToDisk(core, core.rootNode, TempDirPath, Staging(0))
       IN  st.ok /\ RoundTrip(st.disk)]_vars

\* The data origin of a node and the data that belong to it.
Origin(node) ==
  [ isNew |-> node.isNew, isCueTrack |-> node.isCueTrack, size |-> node.size,
    fileData |-> node.fileData, cueBinFile |-> node.cueBinFile,
    cueOffset |-> node.cueOffset, lsn |-> node.lsn ]

\* A file node has one origin, and carries the data of that origin alone.
OneOrigin(node) ==
  /\ ~(node.isNew /\ node.isCueTrack)
  /\ node.isNew => (node.cueBinFile = << >> /\ node.cueOffset = 0 /\ node.lsn = 0)
  /\ node.isCueTrack => (node.fileData = EmptyBytes /\ node.lsn = 0)
  /\ (~node.isNew /\ ~node.isCueTrack) =>
       (node.fileData = EmptyBytes /\ node.cueBinFile = << >> /\ node.cueOffset = 0)

\* Node n of core c is the last child of its parent: the place of a node that
\* has just been created.
IsLastChild(c, n) ==
  LET kids == c.heap[c.heap[n].parent].children
  IN  kids # << >> /\ kids[Len(kids)] = n

\* C20: every file node has exactly one data origin, and an editing operation
\* leaves the origin and its data as they are on every file node it keeps
\* (a node it creates is the last child of its parent; an overwrite deletes
\* the old node and appends a new one).
C20_OriginIsFixed ==
  /\ [](\A n \in DOMAIN core.heap : ~core.heap[n].isDirectory => OneOrigin(core.heap[n]))
  /\ [][\A n \in (DOMAIN core.heap) \cap (DOMAIN core'.heap) :
          ( /\ last'.op = "void"
            /\ ~core.heap[n].isDirectory
            /\ ~core'.heap[n].isDirectory
            /\ ~IsLastChild(core', n) )
          => Origin(core'.heap[n]) = Origin(core.heap[n])]_vars

\* A Pending file node has been created in the place of a deleted node: it
\* stands last, behind a sibling that is younger than the deleted node, while
\* a file node of another origin is kept.
C20_Witness ==
  /\ last.op = "void"
  /\ \E n \in DOMAIN core.heap :
       /\ ~core.heap[n].isDirectory
       /\ core.heap[n].isNew
       /\ IsLastChild(core, n)
       /\ \E i \in 1..Len(Children(core.heap[n].parent)) :
            Children(core.heap[n].parent)[i] > n
  /\ \E m \in DOMAIN core.heap : ~core.heap[m].isDirectory /\ ~core.heap[m].isNew

\* The places node n is listed at: the pairs of a live node and a position in
\* its children list that holds n.
ListedAt(n) ==
  { p \in (DOMAIN core.heap) \X (1..MaxNodes) :
      p[2] <= Len(Children(p[1])) /\ Children(p[1])[p[2]] = n }

\* The number of paths that lead from node a down to node n along children
\* lists in at most k steps.
RECURSIVE PathCount(_, _, _)
PathCount(a, n, k) ==
  LET kids == Children(a)
      Sum[i \in 0..Len(kids)] ==
        IF i = 0 THEN 0
        ELSE Sum[i - 1] + (IF kids[i] \in DOMAIN core.heap /\ k > 0
                           THEN PathCount(kids[i], n, k - 1) ELSE 0)
  IN  (IF a = n THEN 1 ELSE 0) + Sum[Len(kids)]

\* C21: the live nodes form a tree below the root: the root is its own parent
\* and is in no children list; every other node is in exactly one children
\* list, once, and that list is the one of its parent, which is a directory
\* other than the node itself; exactly one path leads from the root to every
\* node; and a file node has no children.
C21_NodesFormTree ==
  /\ core.rootNode \in DOMAIN core.heap
  /\ Root.parent = core.rootNode
  /\ Root.isDirectory
  /\ ListedAt(core.rootNode) = { }
  /\ \A n \in (DOMAIN core.heap) \ { core.rootNode } :
       /\ core.heap[n].parent \in (DOMAIN core.heap) \ { n }
       /\ core.heap[core.heap[n].parent].isDirectory
       /\ Cardinality(ListedAt(n)) = 1
       /\ \A p \in ListedAt(n) : p[1] = core.heap[n].parent
  /\ \A n \in DOMAIN core.heap :
       /\ PathCount(core.rootNode, n, MaxNodes) = 1
       /\ \A i \in 1..Len(Children(n)) : Children(n)[i] \in DOMAIN core.heap
       /\ ~core.heap[n].isDirectory => Children(n) = << >>

\* After an editing operation the tree has a file inside a folder that was
\* added to a folder of the root.
C21_Witness ==
  /\ last.op = "void"
  /\ \E n \in DOMAIN core.heap :
       /\ ~core.heap[n].isDirectory
       /\ core.heap[n].parent # core.rootNode
       /\ core.heap[core.heap[n].parent].parent # core.rootNode
       /\ core.heap[core.heap[n].parent].isNew

\* The targets an addition rejects: nullptr and the file nodes.
RejectedTargets ==
  { NULL } \cup { n \in DOMAIN core.heap : ~core.heap[n].isDirectory }

\* C22: in every state, addFileToDirectory, addFolderToDirectory and
\* importDirectory with a null or non-directory target, and addFileToDirectory
\* with a host file that cannot be opened, return the core as it is: the tree
\* and the modified flag are unchanged.
C22_RejectedMutationsAreNoOps ==
  /\ \A targetNode \in RejectedTargets :
       /\ \A filePath \in AddPaths : addFileToDirectory(core, filePath, targetNode) = core
       /\ \A folderName \in FolderNames :
            addFolderToDirectory(core, folderName, targetNode) = core
       /\ \A dirPath \in ImportPaths : importDirectory(core, dirPath, targetNode) = core
  /\ \A targetNode \in DOMAIN core.heap, filePath \in AddPaths :
       ~isFile(filePath) => addFileToDirectory(core, filePath, targetNode) = core

\* An operation has run on a loaded, unmodified tree that holds file nodes and
\* has left it unmodified.
C22_Witness ==
  /\ last.op = "void"
  /\ ~core.modified
  /\ core.currentIsoPath # << >>
  /\ \E n \in DOMAIN core.heap : n \in RejectedTargets

\* The children of directory n, of the given kind, whose name equals name
\* case-insensitively.
NamedOfKind(n, name, isDirectory) ==
  { Children(n)[i] : i \in { j \in Named(core, n, name) :
                               ChildNode(n, j).isDirectory = isDirectory } }

\* Node k of core c is in core d with its whole subtree, every node as it was,
\* and is still a child of parent.
Kept(c, d, parent, k) ==
  /\ \A m \in Subtree(c.heap, k) : m \in DOMAIN d.heap /\ d.heap[m] = c.heap[m]
  /\ \E i \in 1..Len(d.heap[parent].children) : d.heap[parent].children[i] = k

\* C23: in every state, an addFileToDirectory keeps every directory child of
\* the target whose name equals the file's name, with its whole subtree, and
\* an addFolderToDirectory keeps every file child of the target whose name
\* equals the folder's name, with its size and content.
C23_InsertionKeepsOtherKind ==
  \A targetNode \in DOMAIN core.heap :
    /\ \A filePath \in AddPaths :
         \A k \in NamedOfKind(targetNode, fileName(filePath), TRUE) :
           Kept(core, addFileToDirectory(core, filePath, targetNode), targetNode, k)
    /\ \A folderName \in FolderNames :
         \A k \in NamedOfKind(targetNode, folderName, FALSE) :
           Kept(core, addFolderToDirectory(core, folderName, targetNode), targetNode, k)

\* A file stands last among the children of a directory, behind a directory
\* of the same name that has a child of its own.
C23_Witness ==
  /\ last.op = "void"
  /\ \E n \in DOMAIN core.heap :
       /\ Children(n) # << >>
       /\ ~ChildNode(n, Len(Children(n))).isDirectory
       /\ \E k \in NamedOfKind(n, ChildNode(n, Len(Children(n))).name, TRUE) :
            Children(k) # << >>

\* C24: while a thread is inside doLoadIso or doSaveIso of a Worker, no other
\* thread is inside a slot of that Worker: at most one operation on its core
\* is in flight.
C24_OneOperationInFlight ==
  \A t, u \in Threads : (t # u /\ worker.pc[t] # "idle") => worker.pc[u] = "idle"

\* The staging directory after writeTreeToDisk on a host that fails its k-th
\* operation (none for k = 0).
Materialized(k) == writeTreeToDisk(core, core.rootNode, TempDirPath, Staging(k))

\* C25: the mastering tool is started only on a tree that has been
\* materialized whole, every node at its path; and whenever creating a
\* directory, opening a file or writing its bytes fails (at the operation the
\* host fails, or where the tree itself cannot be staged), no host operation
\* follows the failed one, saveIso returns at once without starting the tool,
\* and it returns false.
C25_ToolStartsAfterMaterialization ==
  /\ [][(call.pc = "idle" /\ call'.pc = "waiting") =>
          /\ Materialized(0).ok
          /\ \A n \in (DOMAIN core.heap) \ { core.rootNode } :
               /\ StagedPath(n) \in DOMAIN call'.disk
               /\ call'.disk[StagedPath(n)].isDir = core.heap[n].isDirectory]_vars
  /\ [](\A k \in 0..(2 * MaxNodes) :
          ~Materialized(k).ok =>
            /\ \/ Materialized(k).n = k
               \/ ~Materialized(0).ok /\ Materialized(k).n = Materialized(0).n
            /\ \A useUdf \in BOOLEAN, makeHybrid \in BOOLEAN, started \in BOOLEAN :
                 LET s == saveIsoStart(core, SaveAsPath, useUdf, makeHybrid,
                                       SaveEnv(TRUE, k, TRUE, TRUE, started))
                 IN  /\ s.returned
                     /\ s.args = << >>
                     /\ ~saveIsoFinish(core, SaveAsPath, ~s.returned, 0).ok)

\* A saveIso has returned false on a tree of at least two nodes below the root
\* that a host without faults materializes, and whose materialization fails
\* on a host that fails its last operation.
C25_Witness ==
  /\ last.op = "saveIso"
  /\ ~last.ok
  /\ call.pc = "idle"
  /\ Cardinality(DOMAIN core.heap) >= 3
  /\ Materialized(0).ok
  /\ ~Materialized(Materialized(0).n).ok

\* No two entries of host directory path, nor of a directory below it, have
\* names that are equal case-insensitively.
RECURSIVE HostNamesDistinct(_)
HostNamesDistinct(path) ==
  LET es == HostDirs[path]
  IN  /\ \A i, j \in 1..Len(es) : i # j => ~compareCaseInsensitive(es[i], es[j])
      /\ \A i \in 1..Len(es) :
           isDir(Append(path, es[i])) => HostNamesDistinct(Append(path, es[i]))

\* Node n of core d mirrors host directory path: it is a directory node of that
\* name with one child per entry, a mirror of the entry if that is a directory
\* and else a Pending file node of the entry's name, length and content.
RECURSIVE Mirrors(_, _, _)
Mirrors(d, n, path) ==
  LET es == HostDirs[path]
      kids == d.heap[n].children
  IN  /\ d.heap[n].isDirectory
      /\ d.heap[n].name = fileName(path)
      /\ d.heap[n].size = 0
      /\ Len(kids) = Len(es)
      /\ \A i \in 1..Len(es) :
           /\ Cardinality({ j \in 1..Len(kids) : d.heap[kids[j]].name = es[i] }) = 1
           /\ \A j \in 1..Len(kids) :
                d.heap[kids[j]].name = es[i] =>
                  /\ d.heap[kids[j]].parent = n
                  /\ IF isDir(Append(path, es[i]))
                     THEN Mirrors(d, kids[j], Append(path, es[i]))
                     ELSE /\ ~d.heap[kids[j]].isDirectory
                          /\ d.heap[kids[j]].isNew
                          /\ d.heap[kids[j]].size = HostFiles[Append(path, es[i])]
                          /\ d.heap[kids[j]].fileData = readAll(Append(path, es[i]))
                          /\ d.heap[kids[j]].children = << >>

\* Core d is core c with one more child at the end of targetNode's children,
\* whose subtree holds every node that is new, and the modified flag set.
AddedOneChild(c, d, targetNode) ==
  LET kids == d.heap[targetNode].children
      k == kids[Len(kids)]
  IN  /\ kids = Append(c.heap[targetNode].children, k)
      /\ k \notin DOMAIN c.heap
      /\ d.heap[k].parent = targetNode
      /\ DOMAIN d.heap = (DOMAIN c.heap) \cup Subtree(d.heap, k)
      /\ \A m \in (DOMAIN c.heap) \ { targetNode } : d.heap[m] = c.heap[m]
      /\ d = [ c EXCEPT !.heap = d.heap, !.modified = TRUE ]
      /\ d.heap[targetNode] = [ c.heap[targetNode] EXCEPT !.children = kids ]

C27_SizesMatchContent ==
  \A n \in DOMAIN core.heap :
    IF core.heap[n].isDirectory THEN core.heap[n].size = 0
    ELSE core.heap[n].isNew => core.heap[n].size = core.heap[n].fileData.len

\* After an edit the tree holds a directory loaded from an image, whose
\* directory entry has a size, a directory that was added and a Pending file
\* with content.
C27_Witness ==
  /\ last.op = "void"
  /\ \E n, m, f \in DOMAIN core.heap :
       /\ core.heap[n].isDirectory /\ ~core.heap[n].isNew /\ n # core.rootNode
       /\ core.heap[m].isDirectory /\ core.heap[m].isNew
       /\ ~core.heap[f].isDirectory /\ core.heap[f].isNew /\ core.heap[f].fileData.len > 0

\* C28: after every event handler of the window, every pointer m_treeItemMap
\* holds, and so every pointer getSelectedNode can return, refers to a live
\* node of the tree of the core.
C28_ItemMapPointsToLiveNodes ==
  \A p \in getSelectedNode :
    /\ ~p.dangling
    /\ p.node \in Subtree(core.heap, core.rootNode)

\* C29: for every node getFileData resolves by a block read, the bytes the
\* read delivers, blocks * ISO_BLOCKSIZE, fit the buffer of size bytes they
\* are stored in.
C29_BlockReadFitsBuffer ==
  \A n \in DOMAIN core.heap :
    readsBlocks(core, n) =>
      blocks(core.heap[n].size) * ISO_BLOCKSIZE <= core.heap[n].size

\* C30: a tree made from a fresh tree by additions, imports and removals alone
\* (no source is loaded, every file node is Pending) is materialized by
\* writeTreeToDisk into an empty staging directory on a host that fails no
\* operation.
C30_EditedTreeMaterializes ==
  (core.currentIsoPath = << >> /\ PendingOnly) => Materialized(0).ok

\* C31: the Save action (saveIso of the window with the current path, useUdf
\* true and makeHybrid false) never starts the mastering tool with an output
\* path (the argument after -o) that is the CUE sheet the session was loaded
\* from.
C31_SaveNeverTargetsCueSheet ==
  ( /\ call.pc = "waiting"
    /\ call.filePath = core.currentIsoPath
    /\ call.useUdf
    /\ ~call.makeHybrid )
  => ~( /\ call.args[1] = Arg("-o")
        /\ call.args[2] \in DOMAIN CueSheets
        /\ IsCuePath(call.args[2]) )

\* The length of the companion file a track node names, 0 if there is none.
CompanionLength(n) ==
  IF isFile(core.heap[n].cueBinFile) THEN HostFiles[core.heap[n].cueBinFile] ELSE 0

\* C32: after a successful load of a CUE sheet no track node is larger than
\* its companion file: none of the subtractions of the size back-fill has
\* wrapped around.
C32_TrackSizesWithinCompanion ==
  (last.op = "loadIso" /\ last.ok /\ IsCuePath(last.path)) =>
    \A n \in DOMAIN core.heap :
      core.heap[n].isCueTrack => core.heap[n].size <= CompanionLength(n)

\* C33: every tree pointer a receiver of Worker::loadFinished still holds
\* refers to a tree the worker has not deleted.
C33_EmittedTreeStaysValid == \A p \in worker.held : ~p.dangling

\* C34: driven by the same operations, the tree-based core and the PIMPL core
\* show the same isModified() and the same current path after every step.
C34_CoresAgreeOnSessionFlags ==
  /\ pimpl.modified = core.modified
  /\ pimpl.currentIsoPath = core.currentIsoPath

====
